---- MODULE Spec2Model ----
(***************************************************************************)
(* Hamiltonian path finder (src/main.py): the Graph class, the validation  *)
(* routine is_hamiltonian_path and the backtracking search                 *)
(* find_hamiltonian_path / _backtrack, as a state machine.                 *)
(*                                                                         *)
(* A run builds one graph (Graph(n, directed) followed by add_edge calls)  *)
(* and then either validates a candidate sequence or runs the search, one  *)
(* step of the recursion at a time, on an explicit stack of _backtrack     *)
(* frames.                                                                 *)
(***************************************************************************)
EXTENDS Integers, Sequences, FiniteSets, TLC

\* Largest vertex count of the graphs explored.
MaxN == 3
\* Largest number of edges inserted before add_edge is no longer called.
MaxEdges == 6
\* Longest candidate sequence handed to is_hamiltonian_path.
MaxPathLen == 3
\* Largest number of edges of the graphs a candidate sequence is validated against.
MaxValidatedEdges == 3

VARIABLES
    g,        \* the Graph object: [n, directed, adj]
    pc,       \* where the program is: build, built, validated, loop, call, iter, ret, done;
              \* add_edge_error, error: add_edge, the search has raised an exception
    last,     \* the most recent add_edge call while building: its arguments, the graph before it
    start,    \* find_hamiltonian_path: the loop variable of "for start in range(n)"
    path,     \* the search's working path (a Python list used as a stack)
    visited,  \* the search's visited markers
    stack,    \* the active _backtrack calls, innermost last
    ret,      \* the value the most recently finished _backtrack call returned
    result,   \* what find_hamiltonian_path returned
    deepest,  \* the deepest nesting of _backtrack calls so far
    cand,     \* the sequence handed to is_hamiltonian_path
    valid,    \* what is_hamiltonian_path returned
    indexed,  \* the indices at which is_hamiltonian_path (through neighbors) indexed g.adj
    raised    \* is_hamiltonian_path raised an exception

vars == <<g, pc, last, start, path, visited, stack, ret, result, deepest, cand, valid, indexed, raised>>

--------------------------------------------------------------------------
\* Python values

\* range(n)
Range(n) == 0 .. (n - 1)

\* Optional[list[int]]: None, or a list
None == [none |-> TRUE, list |-> <<>>]
Some(l) == [none |-> FALSE, list |-> l]

\* A Python list of length len accepts the index i (negative indices count from the end).
IndexOK(len, i) == -len <= i /\ i < len

\* The position a valid index i denotes in a list of length len
Idx(len, i) == IF i < 0 THEN i + len ELSE i

\* list[i] for a list held as a function on 0..len-1
At(a, len, i) == a[Idx(len, i)]

Max(a, b) == IF a >= b THEN a ELSE b

\* set(path)
SetOf(p) == {p[i] : i \in 1 .. Len(p)}

--------------------------------------------------------------------------
\* class Graph

\* Graph.__init__
Graph(n, directed) ==
    [n |-> n, directed |-> directed, adj |-> [u \in Range(n) |-> {}]]

\* Slip: the self-loop test is missing
is_loop_never(u, v) == FALSE

\* add_edge's test for a self-loop
is_loop(u, v) == u = v

\* Slip: the upper bound on v is inclusive (v <= n)
add_edge_valid_inclusive(gr, u, v) == (0 <= u /\ u < gr.n) /\ (0 <= v /\ v <= gr.n)

\* Slip: only the source vertex is validated
add_edge_valid_source_only(gr, u, v) == 0 <= u /\ u < gr.n

\* add_edge's index validation
add_edge_valid(gr, u, v) == (0 <= u /\ u < gr.n) /\ (0 <= v /\ v < gr.n)

\* Slip: the reverse edge is inserted whatever the directedness
add_edge_reverse_always(gr) == TRUE

\* add_edge's test of whether the reverse edge is inserted too
add_edge_reverse(gr) == ~gr.directed

\* Slip: symmetric difference instead of add
set_toggle(s, x) == IF x \in s THEN s \ {x} ELSE s \cup {x}

\* set.add on one adjacency set
set_add(s, x) == s \cup {x}

\* Graph.add_edge raises IndexError: self.adj[u] or self.adj[v] is indexed
\* out of range
add_edge_raises(gr, u, v) ==
    /\ ~is_loop(u, v)
    /\ add_edge_valid(gr, u, v)
    /\ \/ ~IndexOK(gr.n, u)
       \/ add_edge_reverse(gr) /\ ~IndexOK(gr.n, v)

\* Graph.add_edge: the graph after the call
add_edge(gr, u, v) ==
    IF is_loop(u, v) THEN gr
    ELSE IF ~add_edge_valid(gr, u, v) THEN gr
    ELSE LET a1 == [gr.adj EXCEPT ![u] = set_add(@, v)]
             a2 == IF add_edge_reverse(gr)
                      THEN [a1 EXCEPT ![v] = set_add(@, u)]
                      ELSE a1
         IN  [gr EXCEPT !.adj = a2]

\* Slip: sorted() without the degree key
Degree_unkeyed(gr, x) == 0

\* The sort key of neighbors: len(self.adj[x])
Degree(gr, x) == Cardinality(At(gr.adj, gr.n, x))

\* sorted() is stable: elements with equal keys keep the iteration order of the
\* set, which for CPython's sets of small non-negative integers (all below the
\* table size of 8) is ascending.
SortsBefore(gr, x, y) ==
    \/ Degree(gr, x) < Degree(gr, y)
    \/ Degree(gr, x) = Degree(gr, y) /\ x <= y

RECURSIVE sorted(_, _)
sorted(gr, S) ==
    IF S = {} THEN <<>>
    ELSE LET m == CHOOSE x \in S : \A y \in S : SortsBefore(gr, x, y)
         IN  <<m>> \o sorted(gr, S \ {m})

\* Graph.neighbors raises IndexError: the key function indexes adj out of range
neighbors_raises(gr, u) ==
    /\ 0 <= u /\ u < gr.n
    /\ \E x \in gr.adj[u] : ~IndexOK(gr.n, x)

\* The indices at which Graph.neighbors indexes self.adj
neighbors_indexed(gr, u) ==
    IF ~(0 <= u /\ u < gr.n) THEN {} ELSE {u} \cup gr.adj[u]

\* Graph.neighbors: the list returned
neighbors(gr, u) ==
    IF ~(0 <= u /\ u < gr.n) THEN <<>>
    ELSE sorted(gr, gr.adj[u])

--------------------------------------------------------------------------
\* is_hamiltonian_path

\* Slip: the directed branch tests the edge v -> u
edge_check_reversed(gr, u, v) ==
    IF gr.directed
        THEN u \in SetOf(neighbors(gr, v))
        ELSE v \in SetOf(neighbors(gr, u))

\* "v not in g.neighbors(u)", negated; both branches of "if g.directed" make
\* the same test
edge_check(gr, u, v) ==
    IF gr.directed
        THEN v \in SetOf(neighbors(gr, u))
        ELSE v \in SetOf(neighbors(gr, u))

\* "len(path) != n", negated
length_check(gr, p) == Len(p) = gr.n

\* "set(path) != set(range(n))", negated
vertex_check(gr, p) == SetOf(p) = Range(gr.n)

\* The iterations (1-based) of "for i in range(len(path) - 1)" that leave the
\* loop: neighbors raises, or the edge is missing and False is returned
LoopExits(gr, p) ==
    {i \in 1 .. (Len(p) - 1) :
        neighbors_raises(gr, p[i]) \/ ~edge_check(gr, p[i], p[i + 1])}

\* The iterations of the loop that are executed
LoopRuns(gr, p) ==
    {i \in 1 .. (Len(p) - 1) : \A j \in LoopExits(gr, p) : i <= j}

\* is_hamiltonian_path raises an exception
is_hamiltonian_path_raises(gr, p) ==
    /\ length_check(gr, p)
    /\ vertex_check(gr, p)
    /\ \E i \in LoopRuns(gr, p) : neighbors_raises(gr, p[i])

\* The indices at which is_hamiltonian_path indexes g.adj (all inside neighbors)
is_hamiltonian_path_indexed(gr, p) ==
    IF ~length_check(gr, p) THEN {}
    ELSE IF ~vertex_check(gr, p) THEN {}
    ELSE UNION {neighbors_indexed(gr, p[i]) : i \in LoopRuns(gr, p)}

\* is_hamiltonian_path: the boolean returned
is_hamiltonian_path(gr, p) ==
    IF ~length_check(gr, p) THEN FALSE
    ELSE IF ~vertex_check(gr, p) THEN FALSE
    ELSE LoopExits(gr, p) = {}

--------------------------------------------------------------------------
\* _backtrack and find_hamiltonian_path

\* Slip: the visited test is missing
unvisited_always(gr, vis, v) == TRUE

\* "if not visited[neighbor]"; neighbor is an index neighbors() has already
\* used on g.adj, a list as long as visited
unvisited(gr, vis, v) == ~At(vis, gr.n, v)

\* "for start in range(n)": the loop has another start vertex to try
has_next_start(gr, s) == s < gr.n

\* "visited = [False] * n; path = []; visited[start] = True; path.append(start)"
\* Slip: visited is allocated once, before the loop, and so keeps the marks of
\* the start vertices already tried
fresh_visited_shared(gr, s) == [u \in Range(gr.n) |-> u <= s]
fresh_visited(gr, s) == [u \in Range(gr.n) |-> u = s]
fresh_path(s) == <<s>>

\* "visited[neighbor] = True; path.append(neighbor)"
\* Slip: the tentative move leaves the vertex unmarked
mark_forgotten(gr, vis, v) == vis
mark(gr, vis, v) == [vis EXCEPT ![Idx(gr.n, v)] = TRUE]
push(p, v) == Append(p, v)

\* "path.pop(); visited[neighbor] = False"
\* Slip: the undo leaves the vertex on the path
pop_forgotten(p) == p
pop(p) == SubSeq(p, 1, Len(p) - 1)
\* Slip: the undo leaves the visited mark set
unmark_forgotten(gr, vis, v) == vis
unmark(gr, vis, v) == [vis EXCEPT ![Idx(gr.n, v)] = FALSE]

\* "if len(path) == g.n"
path_complete(gr, p) == Len(p) = gr.n

\* The special cases of find_hamiltonian_path: n == 0 and n == 1
is_trivial(gr) == gr.n = 0 \/ gr.n = 1
\* Slip: the single vertex is numbered from 1
trivial_path_one_based(gr) == IF gr.n = 0 THEN <<>> ELSE <<1>>
trivial_path(gr) == IF gr.n = 0 THEN <<>> ELSE <<0>>

\* A _backtrack call that has not yet reached its loop / that is in its loop
\* at the i-th (1-based) element of nbrs; entry records the path and visited
\* lists as they were when the call was entered
Frame(current, p, vis) ==
    [current |-> current, nbrs |-> <<>>, i |-> 0,
     entry |-> [path |-> p, visited |-> vis]]
Top == stack[Len(stack)]
Rest == SubSeq(stack, 1, Len(stack) - 1)
SetTop(f) == [stack EXCEPT ![Len(stack)] = f]

--------------------------------------------------------------------------
\* The state machine

\* Arguments handed to add_edge: every vertex, and one value out of range on each side
Args(gr) == -1 .. gr.n

\* Sequences handed to is_hamiltonian_path
Candidates(gr) ==
    UNION {[1 .. k -> Args(gr)] : k \in 0 .. MaxPathLen}

\* The number of edges add_edge has inserted
EdgeCount(gr) ==
    LET pairs == Cardinality(UNION {{<<u, v>> : v \in gr.adj[u]} : u \in DOMAIN gr.adj})
    IN  IF gr.directed THEN pairs ELSE pairs \div 2

NoCall(gr) == [made |-> FALSE, u |-> 0, v |-> 0, pre |-> gr, rep |-> FALSE]

Init ==
    /\ g \in {Graph(n, d) : n \in 0 .. MaxN, d \in BOOLEAN}
    /\ pc = "build"
    /\ last = NoCall(g)
    /\ start = 0
    /\ path = <<>>
    /\ visited = [u \in Range(g.n) |-> FALSE]
    /\ stack = <<>>
    /\ ret = None
    /\ result = None
    /\ deepest = 0
    /\ cand = <<>>
    /\ valid = FALSE
    /\ indexed = {}
    /\ raised = FALSE

searchVars == <<start, path, visited, stack, ret, result, deepest>>
validateVars == <<cand, valid, indexed, raised>>

\* g.add_edge(u, v), while the graph has fewer than cap edges
AddEdge(cap) ==
    /\ pc = "build"
    /\ EdgeCount(g) < cap
    /\ \E u, v \in Args(g) :
        /\ g' = add_edge(g, u, v)
        /\ last' = [made |-> TRUE, u |-> u, v |-> v, pre |-> g,
                    rep |-> last.made /\ last.u = u /\ last.v = v]
        /\ pc' = IF add_edge_raises(g, u, v) THEN "add_edge_error" ELSE pc
    /\ UNCHANGED <<searchVars, validateVars>>

\* The graph is complete: the caller goes on to use it
Built ==
    /\ pc = "build"
    /\ pc' = "built"
    /\ last' = NoCall(g)
    /\ UNCHANGED <<g, searchVars, validateVars>>

\* is_hamiltonian_path(g, p)
Validate ==
    /\ pc = "built"
    /\ pc' = "validated"
    /\ \E p \in Candidates(g) :
        /\ cand' = p
        /\ raised' = is_hamiltonian_path_raises(g, p)
        /\ indexed' = is_hamiltonian_path_indexed(g, p)
        /\ valid' = IF raised' THEN FALSE ELSE is_hamiltonian_path(g, p)
    /\ UNCHANGED <<g, last, searchVars>>

\* find_hamiltonian_path(g), n == 0 or n == 1: the special cases
FindTrivial ==
    /\ pc = "built"
    /\ is_trivial(g)
    /\ result' = Some(trivial_path(g))
    /\ pc' = "done"
    /\ UNCHANGED <<g, deepest, last, start, path, visited, stack, ret, validateVars>>

\* find_hamiltonian_path(g), n >= 2: enters the loop over the start vertices
FindEnter ==
    /\ pc = "built"
    /\ ~is_trivial(g)
    /\ start' = 0
    /\ pc' = "loop"
    /\ UNCHANGED <<g, deepest, last, path, visited, stack, ret, result, validateVars>>

\* One iteration of "for start in range(n)" up to the call of _backtrack
FindStart ==
    /\ pc = "loop"
    /\ has_next_start(g, start)
    /\ visited' = fresh_visited(g, start)
    /\ path' = fresh_path(start)
    /\ stack' = <<Frame(start, path', visited')>>
    /\ deepest' = Max(deepest, 1)
    /\ pc' = "call"
    /\ UNCHANGED <<g, last, start, ret, result, validateVars>>

\* The loop over the start vertices is over: return None
FindNone ==
    /\ pc = "loop"
    /\ ~has_next_start(g, start)
    /\ result' = None
    /\ pc' = "done"
    /\ UNCHANGED <<g, deepest, last, start, path, visited, stack, ret, validateVars>>

\* _backtrack, base case: the path is complete, return a copy of it
BtComplete ==
    /\ pc = "call"
    /\ path_complete(g, path)
    /\ ret' = Some(path)
    /\ stack' = Rest
    /\ pc' = "ret"
    /\ UNCHANGED <<g, deepest, last, start, path, visited, result, validateVars>>

\* _backtrack: evaluates g.neighbors(current) and enters the loop over it
BtNeighbors ==
    /\ pc = "call"
    /\ ~path_complete(g, path)
    /\ IF neighbors_raises(g, Top.current)
          THEN pc' = "error" /\ UNCHANGED stack
          ELSE /\ stack' = SetTop([Top EXCEPT !.nbrs = neighbors(g, Top.current), !.i = 1])
               /\ pc' = "iter"
    /\ UNCHANGED <<g, deepest, last, start, path, visited, ret, result, validateVars>>

\* _backtrack: the neighbor is unvisited; mark it, append it, recurse
BtTry ==
    /\ pc = "iter"
    /\ Top.i <= Len(Top.nbrs)
    /\ LET neighbor == Top.nbrs[Top.i]
       IN  /\ unvisited(g, visited, neighbor)
           /\ visited' = mark(g, visited, neighbor)
           /\ path' = push(path, neighbor)
           /\ stack' = Append(stack, Frame(neighbor, path', visited'))
           /\ deepest' = Max(deepest, Len(stack) + 1)
    /\ pc' = "call"
    /\ UNCHANGED <<g, last, start, ret, result, validateVars>>

\* _backtrack: the neighbor is already visited; next iteration
BtSkip ==
    /\ pc = "iter"
    /\ Top.i <= Len(Top.nbrs)
    /\ ~unvisited(g, visited, Top.nbrs[Top.i])
    /\ stack' = SetTop([Top EXCEPT !.i = @ + 1])
    /\ UNCHANGED <<g, deepest, pc, last, start, path, visited, ret, result, validateVars>>

\* _backtrack: the loop over the neighbors is over; return None
BtExhausted ==
    /\ pc = "iter"
    /\ Top.i > Len(Top.nbrs)
    /\ ret' = None
    /\ stack' = Rest
    /\ pc' = "ret"
    /\ UNCHANGED <<g, deepest, last, start, path, visited, result, validateVars>>

\* _backtrack: the recursive call found a path; return it
BtPropagate ==
    /\ pc = "ret"
    /\ stack # <<>>
    /\ ~ret.none
    /\ stack' = Rest
    /\ UNCHANGED <<g, deepest, pc, last, start, path, visited, ret, result, validateVars>>

\* _backtrack: the recursive call returned None; undo the move, next iteration
BtUndo ==
    /\ pc = "ret"
    /\ stack # <<>>
    /\ ret.none
    /\ path' = pop(path)
    /\ visited' = unmark(g, visited, Top.nbrs[Top.i])
    /\ stack' = SetTop([Top EXCEPT !.i = @ + 1])
    /\ pc' = "iter"
    /\ UNCHANGED <<g, deepest, last, start, ret, result, validateVars>>

\* find_hamiltonian_path: _backtrack found a path from this start; return it
FindReturn ==
    /\ pc = "ret"
    /\ stack = <<>>
    /\ ~ret.none
    /\ result' = ret
    /\ pc' = "done"
    /\ UNCHANGED <<g, deepest, last, start, path, visited, stack, ret, validateVars>>

\* find_hamiltonian_path: no path from this start; next start vertex
FindNextStart ==
    /\ pc = "ret"
    /\ stack = <<>>
    /\ ret.none
    /\ start' = start + 1
    /\ pc' = "loop"
    /\ UNCHANGED <<g, deepest, last, path, visited, stack, ret, result, validateVars>>

\* The steps of find_hamiltonian_path once it is running
Search ==
    \/ FindStart
    \/ FindNone
    \/ BtComplete
    \/ BtNeighbors
    \/ BtTry
    \/ BtSkip
    \/ BtExhausted
    \/ BtPropagate
    \/ BtUndo
    \/ FindReturn
    \/ FindNextStart

\* Building a graph and searching it
Next ==
    \/ AddEdge(MaxEdges)
    \/ Built
    \/ FindTrivial
    \/ FindEnter
    \/ Search

Spec == Init /\ [][Next]_vars

\* Building a graph and validating candidate sequences against it
NextValidate ==
    \/ AddEdge(MaxValidatedEdges)
    \/ Built
    \/ Validate

ValidateSpec == Init /\ [][NextValidate]_vars

\* The interpreter keeps executing a running call: the search, once entered,
\* takes its next step
FairSpec == Spec /\ WF_vars(Search)

--------------------------------------------------------------------------
\* Properties

\* The three rules of a Hamiltonian path, stated on the adjacency sets
IsHamiltonian(gr, p) ==
    /\ Len(p) = gr.n
    /\ SetOf(p) = Range(gr.n)
    /\ \A i \in 1 .. (Len(p) - 1) : p[i + 1] \in gr.adj[p[i]]

\* The graph has a Hamiltonian path from some start vertex
HasHamiltonianPath(gr) ==
    \E p \in [1 .. gr.n -> Range(gr.n)] : IsHamiltonian(gr, p)

\* The last add_edge call is one the code rejects: a self-loop or an endpoint
\* outside [0, n)
Rejected ==
    \/ last.u = last.v
    \/ last.u < 0 \/ last.u >= g.n
    \/ last.v < 0 \/ last.v >= g.n

\* C1 (soundness): a path returned by find_hamiltonian_path is accepted by
\* is_hamiltonian_path: it has length n, holds every vertex of 0..n-1 exactly
\* once, and each consecutive pair is an edge of the graph.
C1_Soundness ==
    (pc = "done" /\ ~result.none) =>
        /\ is_hamiltonian_path(g, result.list)
        /\ ~is_hamiltonian_path_raises(g, result.list)
        /\ IsHamiltonian(g, result.list)

\* A three-vertex directed graph whose returned path was found after an undo:
\* it does not follow the first neighbor of its start vertex.
C1_Witness ==
    /\ pc = "done" /\ ~result.none
    /\ g.n = 3 /\ g.directed
    /\ Len(result.list) = 3
    /\ neighbors(g, result.list[1])[1] # result.list[2]

\* C2 (completeness): for n >= 2, find_hamiltonian_path returns None only when
\* the graph has no Hamiltonian path from any start vertex.
C2_Completeness ==
    (pc = "done" /\ g.n >= 2 /\ result.none) => ~HasHamiltonianPath(g)

\* A graph on three vertices whose Hamiltonian paths all start at the last
\* start vertex tried, and for which a path is returned.
C2_Witness ==
    /\ pc = "done" /\ g.n = 3
    /\ ~result.none
    /\ result.list[1] = 2
    /\ \A p \in [1 .. 3 -> Range(3)] : IsHamiltonian(g, p) => p[1] = 2

\* C3 (termination): once entered, the search never fails, never nests
\* _backtrack deeper than n calls, and returns.
C3_Termination ==
    /\ [](pc # "error" /\ Len(stack) <= g.n /\ deepest <= g.n)
    /\ [](pc \in {"loop", "call", "iter", "ret"} => <>(pc = "done"))

\* A search on three vertices that has returned after nesting exactly n calls.
C3_Witness ==
    pc = "done" /\ g.n = 3 /\ deepest = 3

\* C4: is_hamiltonian_path returns true exactly when the three rules hold, the
\* edge rule in the direction path[i] -> path[i+1] only.
C4_ValidationExact ==
    pc = "validated" => (valid = IsHamiltonian(g, cand))

\* The directed graph 0 -> 1 rejects the sequence 1, 0.
C4_Witness ==
    /\ pc = "validated"
    /\ g.n = 2 /\ g.directed
    /\ g.adj[0] = {1} /\ g.adj[1] = {}
    /\ cand = <<1, 0>>
    /\ ~valid

\* C5: is_hamiltonian_path returns a boolean without raising, and never indexes
\* the adjacency list at a vertex outside [0, n).
C5_ValidationTotal ==
    pc = "validated" =>
        /\ valid \in BOOLEAN
        /\ ~raised
        /\ indexed \subseteq Range(g.n)

\* A sequence of the right length holding a negative and a too-large value
\* is refused without a failure.
C5_Witness ==
    /\ pc = "validated"
    /\ Len(cand) = g.n
    /\ -1 \in SetOf(cand) /\ g.n \in SetOf(cand)
    /\ ~raised /\ ~valid

\* C6: add_edge(u, v) with u == v or an endpoint outside [0, n) raises no
\* error and leaves the graph, and so every adjacency set, unchanged.
C6_RejectedIsNoOp ==
    (last.made /\ Rejected) => (pc = "build" /\ g = last.pre)

\* A rejected call on a graph that already has an edge.
C6_Witness ==
    /\ pc = "build" /\ last.made /\ Rejected
    /\ EdgeCount(g) >= 1

\* C7: a second add_edge call with the arguments of the call before it leaves
\* the graph as the first call left it.
C7_Idempotent ==
    (pc = "build" /\ last.made /\ last.rep) => g = last.pre

\* An accepted call repeated: the edge is there and the graph did not change.
C7_Witness ==
    /\ pc = "build" /\ last.made /\ last.rep /\ ~Rejected
    /\ last.v \in g.adj[last.u]

\* C8 (well-formedness): the adjacency list has n entries, every member of
\* adj[u] is a vertex other than u, an undirected graph's adjacency is
\* symmetric, and an accepted add_edge(u, v) on a directed graph adds v to
\* adj[u] and changes nothing else.
C8_WellFormed ==
    /\ DOMAIN g.adj = Range(g.n)
    /\ \A u \in Range(g.n) : g.adj[u] \subseteq (Range(g.n) \ {u})
    /\ ~g.directed => \A u, v \in Range(g.n) : (v \in g.adj[u]) <=> (u \in g.adj[v])
    /\ (pc = "build" /\ last.made /\ ~Rejected /\ g.directed) =>
            g.adj = [last.pre.adj EXCEPT ![last.u] = @ \cup {last.v}]

\* A directed graph that has just received the edge u -> v and not v -> u.
C8_Witness ==
    /\ pc = "build" /\ last.made /\ ~Rejected /\ g.directed
    /\ last.v \in g.adj[last.u]
    /\ last.v \notin last.pre.adj[last.u]
    /\ last.u \notin g.adj[last.v]

\* The list l holds each member of S exactly once
ListsExactly(l, S) ==
    /\ SetOf(l) = S
    /\ Len(l) = Cardinality(S)

\* The out-degrees, taken from the adjacency sets, do not decrease along l
DegreeAscending(gr, l) ==
    \A i, j \in 1 .. Len(l) :
        i < j => Cardinality(gr.adj[l[i]]) <= Cardinality(gr.adj[l[j]])

\* C9: neighbors(u) lists each member of adj[u] exactly once in non-decreasing
\* order of out-degree, the degree being that of the whole adjacency set
\* whatever the search has visited, and is empty for u outside [0, n); the
\* list each _backtrack call iterates over is that list.
C9_NeighborsOrdered ==
    /\ \A u \in Args(g) :
        IF u \in Range(g.n)
            THEN /\ ListsExactly(neighbors(g, u), g.adj[u])
                 /\ DegreeAscending(g, neighbors(g, u))
            ELSE neighbors(g, u) = <<>>
    /\ \A k \in 1 .. Len(stack) :
        stack[k].i >= 1 =>
            /\ ListsExactly(stack[k].nbrs, g.adj[stack[k].current])
            /\ DegreeAscending(g, stack[k].nbrs)

\* A _backtrack call iterating over neighbors of different degrees that the
\* degree order lists against their numbering, one of them already visited.
C9_Witness ==
    /\ pc = "iter"
    /\ Len(Top.nbrs) >= 2
    /\ Top.nbrs[1] > Top.nbrs[2]
    /\ Cardinality(g.adj[Top.nbrs[1]]) < Cardinality(g.adj[Top.nbrs[2]])
    /\ \E x \in SetOf(Top.nbrs) : visited[x]

\* C10: find_hamiltonian_path returns [] for n = 0 and [0] for n = 1, for
\* either directedness, without a single _backtrack call.
C10_Trivial ==
    (pc = "done" /\ g.n <= 1) =>
        /\ result = Some(IF g.n = 0 THEN <<>> ELSE <<0>>)
        /\ deepest = 0
        /\ path = <<>>

\* The single-vertex undirected graph has returned [0].
C10_Witness ==
    /\ pc = "done"
    /\ g.n = 1 /\ ~g.directed
    /\ result = Some(<<0>>)

\* The search is inside an attempt: "for start in range(n)" has set up
\* visited and path, and the attempt's _backtrack call has not yet been
\* answered by find_hamiltonian_path
InAttempt == pc \in {"call", "iter", "ret"}

\* C11 (search-state consistency): throughout a search attempt, visited[v] is
\* true iff v occurs in path, path holds no vertex twice, len(path) is the
\* number of true visited entries and at most n, path[0] is the start vertex,
\* and each consecutive pair of path is an edge of the graph.
C11_SearchStateConsistent ==
    InAttempt =>
        /\ DOMAIN visited = Range(g.n)
        /\ \A v \in Range(g.n) : visited[v] <=> (v \in SetOf(path))
        /\ \A i, j \in 1 .. Len(path) : path[i] = path[j] => i = j
        /\ Len(path) = Cardinality({v \in Range(g.n) : visited[v]})
        /\ Len(path) <= g.n
        /\ Len(path) >= 1 /\ path[1] = start
        /\ \A i \in 1 .. (Len(path) - 1) : path[i + 1] \in g.adj[path[i]]

\* The state after an undo: the first call of an attempt on three vertices is
\* back at its loop, its first neighbor tried, unmarked again and off the path.
C11_Witness ==
    /\ pc = "iter"
    /\ g.n = 3
    /\ Len(stack) = 1
    /\ Top.i = 2
    /\ ~visited[Top.nbrs[1]]
    /\ path = <<start>>

\* C12 (strict LIFO backtrack): a _backtrack call that is in its loop, and so
\* one that leaves it to return None, finds path and visited exactly as they
\* were when it was entered; the undo after a call that returned None removes
\* only the last vertex of path, the neighbor just tried, clears only that
\* vertex's mark, and moves the caller's loop to the next element of the same
\* neighbors list.
C12_StrictLIFO ==
    /\ [](pc = "iter" =>
            /\ path = Top.entry.path
            /\ visited = Top.entry.visited)
    /\ []((pc = "ret" /\ ret.none /\ stack # <<>>) =>
            /\ path = Append(Top.entry.path, Top.nbrs[Top.i])
            /\ visited = [Top.entry.visited EXCEPT ![Top.nbrs[Top.i]] = TRUE])
    /\ [][(pc = "ret" /\ ret.none /\ stack # <<>>) =>
            /\ path' = SubSeq(path, 1, Len(path) - 1)
            /\ visited' = [visited EXCEPT ![path[Len(path)]] = FALSE]
            /\ pc' = "iter"
            /\ Len(stack') = Len(stack)
            /\ stack'[Len(stack)].nbrs = Top.nbrs
            /\ stack'[Len(stack)].i = Top.i + 1
            /\ SubSeq(stack', 1, Len(stack) - 1) = Rest]_vars

\* A call that returns None after it tried a neighbor and undid the move: its
\* loop is over, a neighbor of its vertex is unmarked again, and path and
\* visited are those of its entry.
C12_Witness ==
    /\ pc = "iter"
    /\ g.n = 3
    /\ Top.i > Len(Top.nbrs)
    /\ \E k \in 1 .. Len(Top.nbrs) : ~visited[Top.nbrs[k]]
    /\ path = Top.entry.path
    /\ visited = Top.entry.visited

\* The graph has a Hamiltonian path whose first vertex is s
HasHamiltonianPathFrom(gr, s) ==
    \E p \in [1 .. gr.n -> Range(gr.n)] : p[1] = s /\ IsHamiltonian(gr, p)

\* C13 (ascending start order, first found wins): for n >= 2 the loop variable
\* start begins at 0 and only ever grows by one; every attempt begins with
\* path = [start] and visited true at start alone; an attempt is only begun
\* when every smaller start vertex has no Hamiltonian path; and a returned
\* path begins at the smallest vertex a Hamiltonian path starts from, the
\* loop variable still standing there, so that no greater start vertex was
\* tried.
C13_AscendingFirstFound ==
    /\ [](pc = "built" => start = 0)
    /\ [][start' = start \/ (start' = start + 1 /\ pc = "ret" /\ ret.none /\ stack = <<>>)]_vars
    /\ [][(pc = "loop" /\ start < g.n) =>
            /\ start' = start
            /\ path' = <<start>>
            /\ visited' = [u \in Range(g.n) |-> u = start]]_vars
    /\ []((InAttempt \/ pc = "loop") =>
            \A s \in 0 .. (start - 1) : ~HasHamiltonianPathFrom(g, s))
    /\ []((pc = "done" /\ g.n >= 2 /\ ~result.none) =>
            /\ result.list[1] = start
            /\ HasHamiltonianPathFrom(g, start)
            /\ \A s \in 0 .. (start - 1) : ~HasHamiltonianPathFrom(g, s))

\* A graph on three vertices with Hamiltonian paths from vertex 1 and from
\* vertex 2 but none from vertex 0: the path returned starts at 1 and the
\* loop variable never reached 2.
C13_Witness ==
    /\ pc = "done" /\ g.n = 3
    /\ ~result.none
    /\ result.list[1] = 1
    /\ start = 1
    /\ ~HasHamiltonianPathFrom(g, 0)
    /\ HasHamiltonianPathFrom(g, 2)

====
